---- MODULE Spec2Model ----
(***************************************************************************)
(* Client-side synchronisation layer of the todo application: the offline  *)
(* store and its pending-operation queue (stores/useOfflineStore), the     *)
(* background drain and the periodic resync (hooks/useRealTimeSync),       *)
(* the optimistic task mutations over the query cache (hooks/useTasks),    *)
(* the App's own task list and its handlers, the chat conversation         *)
(* (hooks/useChat), the store's persistence across page loads, the         *)
(* staleness of the queries the views observe, the notification display    *)
(* (components/NotificationSystem), the task preview of the chat view      *)
(* (components/chat/ChatContainer) and the pages of the task list          *)
(* (components/tasks/TaskList).                                            *)
(*                                                                         *)
(* React closures: a hook's callbacks read the values of the render that   *)
(* created them. Every store change re-renders before the next event, so   *)
(* a handler invoked by an event reads the state as it was when the event  *)
(* arrived (the unprimed variables), while a timer callback or a running   *)
(* drain keeps the values of the render that armed or started it.          *)
(***************************************************************************)
EXTENDS Integers, Sequences, FiniteSets, Bags, TLC

\* ---------------------------------------------------------------- bounds
MaxEnqueued == 2
MaxDrains == 2
MaxSyncs == 3
MaxWarnings == 2
MaxClock == 2
MaxMutations == 2
MaxEvents == 7
MaxMade == 2
MaxNotifications == 2
MaxObservers == 2
MaxNetworkCalls == 3

\* ------------------------------------------------------ program constants
RetryCeiling == 3

TaskIds == {7, 8}
TaskStatus == {"PENDING", "IN_PROGRESS", "COMPLETED"}
OperationTypes == {"CREATE_TASK", "UPDATE_TASK", "DELETE_TASK", "COMPLETE_TASK"}

\* The payloads the callers of queueOperation hand over, one per operation type.
OperationInputs ==
    { [type |-> "CREATE_TASK",   data |-> [id |-> 0, status |-> "PENDING"]],
      [type |-> "UPDATE_TASK",   data |-> [id |-> 7, status |-> "COMPLETED"]],
      [type |-> "DELETE_TASK",   data |-> [id |-> 8, status |-> "PENDING"]],
      [type |-> "COMPLETE_TASK", data |-> [id |-> 8, status |-> "COMPLETED"]] }

\* useRealTimeSync's interval and the queries' staleTime, in milliseconds.
SyncInterval == 30000
TaskStaleTime == 300000
ChatStaleTime == 120000

\* The queries the views observe: useTasks({status: PENDING}), useTask(7),
\* useChatMessages().
QueryKeys == {"list", "detail", "chat"}
\* A query no component has asked for yet.
NoQuery == [loaded |-> FALSE, age |-> 0, invalidated |-> FALSE, fetching |-> FALSE,
            observers |-> 0]

NoTimer == [armed |-> FALSE]
NoNotifications == [success |-> 0, error |-> 0]

\* A Task, as far as the cache logic reads it. updated_at names who stamped it:
\* the seed data, the client's optimistic new Date(), or the server.
Task(id, status, stamp) == [id |-> id, status |-> status, updated_at |-> stamp]
Task7 == Task(7, "PENDING", "seed")
Task8 == Task(8, "IN_PROGRESS", "seed")
NewTaskId == 9

\* The task-list queries on screen, by their status filter; "all" has none.
ListKeys == {"all", "PENDING", "COMPLETED"}
\* A query that exists and holds no data yet.
NoData == [nodata |-> TRUE]

\* The offline caches a previous session may have persisted.
PersistedCaches ==
    { <<>>, <<[id |-> 7, status |-> "PENDING"]>> }

VARIABLES
    isOnline,            \* OfflineState.isOnline
    pendingOperations,   \* OfflineState.pendingOperations
    cachedTasks,         \* OfflineState.cachedTasks
    lastSyncTimestamp,   \* OfflineState.lastSyncTimestamp
    nextId,              \* the next fresh operation id
    bgTimer,             \* useBackgroundSync's 1 s timer and the closure it holds
    drains,              \* the running processPendingOperations calls
    synced,              \* history: the operations whose dispatch succeeded
    failures,            \* history: failed dispatches of each queued operation, by id
    notifications,       \* the notifications useBackgroundSync has added, by type
    intervalRef,         \* useRealTimeSync: the timer intervalRef.current names is live
    liveIntervals,       \* useRealTimeSync: the setInterval timers that are live
    syncing,             \* the syncData calls awaiting their invalidation
    warnings,            \* the 'Sync Failed' warnings on display, each with its Retry
    now,                 \* Date.now()
    detail,              \* query cache: ['tasks', 'detail', id], by id
    lists,               \* query cache: ['tasks', 'list', {filters, page, size}], by filter
    server,              \* the backend's tasks, by id
    muts,                \* the task mutations that have not settled
    refetching,          \* the invalidated queries being refetched
    mutations,           \* the number of mutations triggered so far
    lastSettled,         \* history: the mutation that settled last, and how
    events,              \* the events of the app-wide session so far
    tasks,               \* App: const [tasks, setTasks] = useState(mockTasks)
    freshResponse,       \* App: the generated tasks on display, or none
    uiNextId,            \* the next fresh id of a task made in the App
    cachedChatMessages,  \* OfflineState.cachedChatMessages
    returned,            \* what the last call of queueOperation on this page returned
    reloads,             \* history: the page loads after the first
    chatPage,            \* query cache: ['chat', 'messages', {page: 1, size: 50}]
    serverChat,          \* the backend's chat messages, newest first
    generating,          \* the generateTasks mutations that have not settled
    chatRefetching,      \* the chat page is invalidated and being refetched
    prompts,             \* the number of prompts sent so far
    isManuallyLoading,   \* useChatConversation: const [isManuallyLoading, ...] = useState(false)
    queries,             \* query cache: the state of each query the views observe
    networkCalls,        \* history: the requests the queries have issued
    uiNotifications,     \* useUIStore: state.notifications
    noteNextId,          \* the next fresh notification id
    expired,             \* history: the notifications their own timer removed
    latestMessage,       \* ChatContainer: messages[messages.length - 1], if it carries tasks
    freshMessage,        \* ChatContainer: freshResponse?.message, the prop App hands down
    rejectedMessageIds,  \* ChatContainer: useState(new Set())
    lastProcessedMessageId, \* ChatContainer: useState(null)
    answered,            \* the answers with tasks the backend has made so far
    awaiting,            \* a prompt's request has not settled
    handled,             \* history: the messages accepted or rejected since the last prompt
    listTasks,           \* TaskList: the tasks prop, by status, newest first
    filters,             \* TaskList: useState({}), its status filter
    sortField,           \* TaskList: useState('created_at')
    sortDirection,       \* TaskList: useState('desc')
    currentPage          \* TaskList: useState(1)

storeVars == <<isOnline, pendingOperations, cachedTasks, lastSyncTimestamp, nextId>>
queueVars == <<bgTimer, drains, synced, failures, notifications>>
syncVars == <<intervalRef, liveIntervals, syncing, warnings, now>>

cacheVars == <<detail, lists, server, muts, refetching, mutations, lastSettled>>

uiVars == <<tasks, freshResponse, uiNextId>>

persistVars == <<cachedChatMessages, returned, reloads>>

\* The state outside the offline store's queue, the drains, the resync and
\* the task query cache.
chatVars == <<chatPage, serverChat, generating, chatRefetching, prompts, isManuallyLoading>>

observerVars == <<queries, networkCalls>>
noteVars == <<uiNotifications, noteNextId, expired>>
previewVars == <<latestMessage, freshMessage, rejectedMessageIds, lastProcessedMessageId,
                 answered, awaiting, handled>>
listVars == <<listTasks, filters, sortField, sortDirection, currentPage>>

viewVars == <<uiVars, persistVars, chatVars, observerVars, noteVars, previewVars, listVars>>

vars == <<storeVars, queueVars, syncVars, cacheVars, events, viewVars>>

\* ------------------------------------------------------- sequence helpers
Ids(q) == { q[i].id : i \in 1..Len(q) }

\* ---------------------------------------------------- offline store actions
\* A store that puts a new operation in front of the queue.
addPendingOperation_AtHead(q, operation, id) ==
    <<[id |-> id, type |-> operation.type, data |-> operation.data,
       retryCount |-> 0]>> \o q

addPendingOperation(q, operation, id) ==
    Append(q, [id |-> id, type |-> operation.type, data |-> operation.data,
               retryCount |-> 0])

\* A store that removes the entry and every entry queued after it.
removePendingOperation_AndNewer(q, id) ==
    SelectSeq(q, LAMBDA op : op.id < id)

removePendingOperation(q, id) ==
    SelectSeq(q, LAMBDA op : op.id # id)

\* A store that raises the retry count of every entry.
incrementRetryCount_OfAll(q, id) ==
    [i \in 1..Len(q) |-> [q[i] EXCEPT !.retryCount = @ + 1]]

incrementRetryCount(q, id) ==
    [i \in 1..Len(q) |->
        IF q[i].id = id THEN [q[i] EXCEPT !.retryCount = @ + 1] ELSE q[i]]

updateCachedTask(cached, id, updates) ==
    [i \in 1..Len(cached) |->
        IF cached[i].id = id THEN [cached[i] EXCEPT !.status = updates.status]
        ELSE cached[i]]

\* ------------------------------------------------------ useBackgroundSync
\* The effect with dependencies [isOnline, pendingOperations.length]: when one
\* of them changed in the render, the old timer is cleared and, online with a
\* non-empty queue, a new one is armed whose callback holds this render's queue.
BackgroundSyncEffect(oldOnline, oldQ, newOnline, newQ, timer) ==
    IF oldOnline = newOnline /\ Len(oldQ) = Len(newQ) THEN timer
    ELSE IF newOnline /\ Len(newQ) > 0 THEN [armed |-> TRUE, snap |-> newQ]
    ELSE NoTimer

\* --------------------------------------------------- processPendingOperations
\* The loop walking its snapshot from the tail.
NextOperation_FromTail(todo) == Len(todo)

\* The place in the rest of the snapshot of the entry the loop takes next.
NextOperation(todo) == 1

DropAt(s, k) == [i \in 1..(Len(s) - 1) |-> IF i < k THEN s[i] ELSE s[i + 1]]

\* The guard of processPendingOperations, on the values its closure holds.
DrainRuns(closureOnline, closureQ) == closureOnline /\ Len(closureQ) > 0

\* A call of processPendingOperations past its guard: the loop takes its first
\* entry and dispatches it.
NewDrain(closureQ, src) ==
    LET k == NextOperation(closureQ) IN
    [src |-> src, cur |-> closureQ[k], todo |-> DropAt(closureQ, k)]

StartDrain(closureOnline, closureQ, src) ==
    IF DrainRuns(closureOnline, closureQ)
    THEN /\ BagCardinality(drains) < MaxDrains
         /\ drains' = drains (+) SetToBag({NewDrain(closureQ, src)})
    ELSE UNCHANGED drains

\* -------------------------------------------------------- useRealTimeSync
\* App mounts useRealTimeSync({enabled: true, interval: 30000}).
SyncEnabled == TRUE

\* syncData called through a closure that holds closureOnline: past its guard
\* it issues the invalidation of the task lists and awaits it. The record keeps
\* what the store's isOnline was when the invalidation was issued.
SyncData(closureOnline, storeOnline, inflight) ==
    IF ~closureOnline \/ ~SyncEnabled THEN inflight
    ELSE inflight (+) SetToBag({[online |-> storeOnline]})

\* The two effects of the mount render of an online session: the interval
\* effect's initial sync and the reconnect effect's sync.
MountSyncs == SyncData(TRUE, TRUE, SyncData(TRUE, TRUE, EmptyBag))

\* ------------------------------------------------------- the task backend
RECURSIVE Ascending(_)
Ascending(S) ==
    IF S = {} THEN <<>>
    ELSE LET m == CHOOSE x \in S : \A y \in S : x <= y IN <<m>> \o Ascending(S \ {m})

\* TaskApiService.getTasks(filters): the page of the tasks the filter keeps.
ServerList(srv, key) ==
    LET ids == { i \in DOMAIN srv : key = "all" \/ srv[i].status = key } IN
    [items |-> [n \in 1..Cardinality(ids) |-> srv[Ascending(ids)[n]]],
     total |-> Cardinality(ids)]

\* Whether the backend has what the request names (a 404 otherwise).
ServerAccepts(srv, m) == m.kind = "create" \/ m.id \in DOMAIN srv

\* The task the backend returns for a request it carried out.
ServerResponse(srv, m) ==
    CASE m.kind = "create"   -> Task(m.id, "PENDING", "server")
      [] m.kind = "update"   -> Task(m.id, m.updates.status, "server")
      [] m.kind = "complete" -> Task(m.id, "COMPLETED", "server")
      [] OTHER               -> Task(m.id, "DELETED", "server")

ServerApply(srv, m) ==
    IF m.kind = "delete" THEN [i \in DOMAIN srv \ {m.id} |-> srv[i]]
    ELSE (m.id :> ServerResponse(srv, m)) @@ srv

\* ---------------------------------------------------- hooks/useTasks: cache
HasData(old) == "items" \in DOMAIN old

\* {...task, ...updates, updated_at: new Date().toISOString()}
Merged(task, updates) ==
    [task EXCEPT !.status = updates.status, !.updated_at = "client"]

\* useUpdateTask, optimistic update: the detail entry if there is one, and the
\* items of that id in every list query that holds data.
UpdateOptimistic(c, id, updates) ==
    [detail |-> IF id \in DOMAIN c.detail
                THEN [c.detail EXCEPT ![id] = Merged(@, updates)] ELSE c.detail,
     lists  |-> [k \in DOMAIN c.lists |->
                    LET old == c.lists[k] IN
                    IF ~HasData(old) THEN old
                    ELSE [old EXCEPT !.items = [i \in 1..Len(old.items) |->
                            IF old.items[i].id = id THEN Merged(old.items[i], updates)
                            ELSE old.items[i]]]]]

\* useDeleteTask, optimistic update.
DeleteOptimistic(c, id) ==
    [detail |-> [i \in DOMAIN c.detail \ {id} |-> c.detail[i]],
     lists  |-> [k \in DOMAIN c.lists |->
                    LET old == c.lists[k] IN
                    IF ~HasData(old) THEN old
                    ELSE [items |-> SelectSeq(old.items, LAMBDA task : task.id # id),
                          total |-> old.total - 1]]]

\* useCompleteTask, optimistic update: nothing without a cached detail entry.
CompleteOptimistic(c, id) ==
    IF id \notin DOMAIN c.detail THEN c
    ELSE LET completedTask == [c.detail[id] EXCEPT !.status = "COMPLETED",
                                                   !.updated_at = "client"] IN
         [detail |-> [c.detail EXCEPT ![id] = completedTask],
          lists  |-> [k \in DOMAIN c.lists |->
                        LET old == c.lists[k] IN
                        IF ~HasData(old) THEN old
                        ELSE [old EXCEPT !.items = [i \in 1..Len(old.items) |->
                                IF old.items[i].id = id THEN completedTask
                                ELSE old.items[i]]]]]

Optimistic(c, m) ==
    CASE m.kind = "update"   -> UpdateOptimistic(c, m.id, m.updates)
      [] m.kind = "delete"   -> DeleteOptimistic(c, m.id)
      [] m.kind = "complete" -> CompleteOptimistic(c, m.id)
      [] OTHER               -> c

\* onSuccess of useUpdateTask and useCompleteTask keeping each item's own updated_at.
OnSuccessItem_KeepsStamp(task, response) ==
    IF task.id = response.id THEN [response EXCEPT !.updated_at = task.updated_at] ELSE task

\* onSuccess of useUpdateTask and useCompleteTask: the item of a cached list.
OnSuccessItem(task, response) ==
    IF task.id = response.id THEN response ELSE task

\* onSuccess: useCreateTask sets the detail entry (and invalidates the lists),
\* useUpdateTask and useCompleteTask set the detail entry and the list items,
\* useDeleteTask has none.
OnSuccess(c, m, response) ==
    CASE m.kind = "create" ->
            [detail |-> (response.id :> response) @@ c.detail, lists |-> c.lists]
      [] m.kind \in {"update", "complete"} ->
            [detail |-> (response.id :> response) @@ c.detail,
             lists  |-> [k \in DOMAIN c.lists |->
                            LET old == c.lists[k] IN
                            IF ~HasData(old) THEN old
                            ELSE [old EXCEPT !.items = [i \in 1..Len(old.items) |->
                                    OnSuccessItem(old.items[i], response)]]]]
      [] OTHER -> c

\* The queries a settled mutation invalidates: on success useCreateTask the
\* lists; on failure the rollback of useUpdateTask and useCompleteTask the
\* detail entry and the lists, that of useDeleteTask the lists.
Invalidated(c, m, ok) ==
    CASE ok /\ m.kind = "create" -> [detail |-> {}, list |-> DOMAIN c.lists]
      [] ~ok /\ m.kind \in {"update", "complete"} ->
            [detail |-> {m.id} \cap DOMAIN c.detail, list |-> DOMAIN c.lists]
      [] ~ok /\ m.kind = "delete" -> [detail |-> {}, list |-> DOMAIN c.lists]
      [] OTHER -> [detail |-> {}, list |-> {}]

\* ------------------------------------------------------ App: local tasks
\* A task of the App's list, without its created_at and updated_at, which the
\* handlers write and nothing reads.
UiTask(id, title, description, due, priority, category, status, ai) ==
    [id |-> id, title |-> title, description |-> description, due_date |-> due,
     priority |-> priority, category |-> category, status |-> status,
     ai_generated |-> ai]

mockTasks ==
    << UiTask(1, "documentation", "write", "dec-15", "HIGH", "Work", "IN_PROGRESS", FALSE),
       UiTask(2, "groceries", "buy", "dec-10", "MEDIUM", "Personal", "PENDING", TRUE),
       UiTask(3, "workout", "run", "none", "LOW", "Health", "COMPLETED", FALSE) >>

NoResponse == <<>>

ViewInit ==
    /\ tasks = mockTasks
    /\ freshResponse = NoResponse
    /\ uiNextId = Len(mockTasks) + 1
    /\ cachedChatMessages = <<>>
    /\ returned = <<>>
    /\ reloads = 0
    /\ chatPage = NoData
    /\ serverChat = << [id |-> 1, content |-> "welcome", role |-> "ASSISTANT"] >>
    /\ generating = EmptyBag
    /\ chatRefetching = FALSE
    /\ prompts = 0
    /\ isManuallyLoading = FALSE
    /\ queries = [key \in QueryKeys |-> NoQuery]
    /\ networkCalls = 0
    /\ uiNotifications = <<>>
    /\ noteNextId = 1
    /\ expired = {}
    /\ latestMessage = 0
    /\ freshMessage = 0
    /\ rejectedMessageIds = {}
    /\ lastProcessedMessageId = 0
    /\ answered = 0
    /\ awaiting = FALSE
    /\ handled = {}
    /\ listTasks = [i \in 1..Len(mockTasks) |-> mockTasks[i].status]
    /\ filters = <<>>
    /\ sortField = "created_at"
    /\ sortDirection = "desc"
    /\ currentPage = 1

\* ------------------------------------------------------------------ Init
Init ==
    /\ isOnline \in BOOLEAN
    /\ pendingOperations = <<>>
    /\ cachedTasks \in PersistedCaches
    /\ nextId = 1
    /\ bgTimer = NoTimer
    /\ drains = EmptyBag
    /\ synced = {}
    /\ failures = <<>>
    /\ notifications = NoNotifications
    /\ lastSyncTimestamp = 0
    /\ intervalRef = FALSE
    /\ liveIntervals = 0
    /\ syncing = EmptyBag
    /\ warnings = 0
    /\ now = 1
    /\ server = (7 :> Task7) @@ (8 :> Task8)
    /\ detail = (7 :> Task7)
    /\ lists = [k \in ListKeys |->
                    IF k = "COMPLETED" THEN NoData ELSE ServerList(server, k)]
    /\ muts = EmptyBag
    /\ refetching = [detail |-> {}, list |-> {}]
    /\ mutations = 0
    /\ lastSettled = [kind |-> "none"]
    /\ events = 0
    /\ ViewInit

\* The state after the mount render where useRealTimeSync is mounted: online,
\* its effects have armed the interval and called syncData twice.
SyncInit ==
    /\ isOnline \in BOOLEAN
    /\ pendingOperations = <<>>
    /\ cachedTasks \in PersistedCaches
    /\ nextId = 1
    /\ bgTimer = NoTimer
    /\ drains = EmptyBag
    /\ synced = {}
    /\ failures = <<>>
    /\ notifications = NoNotifications
    /\ lastSyncTimestamp = 0
    /\ intervalRef = isOnline
    /\ liveIntervals = (IF isOnline THEN 1 ELSE 0)
    /\ syncing = (IF isOnline THEN MountSyncs ELSE EmptyBag)
    /\ warnings = 0
    /\ now = 1
    /\ server = (7 :> Task7) @@ (8 :> Task8)
    /\ detail = (7 :> Task7)
    /\ lists = [k \in ListKeys |->
                    IF k = "COMPLETED" THEN NoData ELSE ServerList(server, k)]
    /\ muts = EmptyBag
    /\ refetching = [detail |-> {}, list |-> {}]
    /\ mutations = 0
    /\ lastSettled = [kind |-> "none"]
    /\ events = 0
    /\ ViewInit

\* --------------------------------------------------------------- actions
\* An action of a model that follows some of the hooks only.
Alone(A) == A /\ UNCHANGED <<events, viewVars>>

\* window 'online' event: handleOnline, then the render and its effects.
HandleOnline ==
    /\ ~isOnline
    /\ isOnline' = TRUE
    /\ StartDrain(isOnline, pendingOperations, "reconnect")
    /\ bgTimer' = BackgroundSyncEffect(isOnline, pendingOperations,
                                       TRUE, pendingOperations, bgTimer)
    /\ UNCHANGED <<pendingOperations, cachedTasks, lastSyncTimestamp, nextId, synced, failures, notifications>>
    /\ UNCHANGED <<syncVars, cacheVars>>

\* window 'offline' event: handleOffline, then the render and its effects.
HandleOffline ==
    /\ isOnline
    /\ isOnline' = FALSE
    /\ bgTimer' = BackgroundSyncEffect(isOnline, pendingOperations,
                                       FALSE, pendingOperations, bgTimer)
    /\ UNCHANGED <<pendingOperations, cachedTasks, lastSyncTimestamp, nextId, drains, synced, failures, notifications>>
    /\ UNCHANGED <<syncVars, cacheVars>>

\* queueOperation(type, data): enqueues and returns true when offline, returns
\* false and leaves the queue alone when online.
QueueOperation(operation) ==
    /\ nextId <= MaxEnqueued
    /\ IF ~isOnline
       THEN /\ pendingOperations' = addPendingOperation(pendingOperations, operation, nextId)
            /\ nextId' = nextId + 1
            /\ failures' = (nextId :> 0) @@ failures
       ELSE UNCHANGED <<pendingOperations, nextId, failures>>
    /\ bgTimer' = BackgroundSyncEffect(isOnline, pendingOperations,
                                       isOnline, pendingOperations', bgTimer)
    /\ UNCHANGED <<isOnline, cachedTasks, lastSyncTimestamp, drains, synced, notifications>>
    /\ UNCHANGED <<syncVars, cacheVars>>

\* The 1 s timer of useBackgroundSync fires: syncPending calls the
\* processPendingOperations of the render that armed it.
TimerFire ==
    /\ bgTimer.armed
    /\ StartDrain(TRUE, bgTimer.snap, "timer")
    /\ bgTimer' = NoTimer
    /\ UNCHANGED <<isOnline, pendingOperations, cachedTasks, lastSyncTimestamp, nextId, synced, failures, notifications>>
    /\ UNCHANGED <<syncVars, cacheVars>>

\* The user calls syncPending (processPendingOperations of the last render).
ManualSync ==
    /\ DrainRuns(isOnline, pendingOperations)
    /\ StartDrain(isOnline, pendingOperations, "manual")
    /\ UNCHANGED <<isOnline, pendingOperations, cachedTasks, lastSyncTimestamp, nextId, bgTimer, synced, failures, notifications>>
    /\ UNCHANGED <<syncVars, cacheVars>>

\* What the loop body does to the queue once the dispatch of op settled; op is
\* the entry as the drain's snapshot holds it.
AfterDispatch(q, op, ok) ==
    IF ok THEN removePendingOperation(q, op.id)
    ELSE IF op.retryCount >= RetryCeiling THEN removePendingOperation(q, op.id)
    ELSE incrementRetryCount(q, op.id)

\* syncPending of useBackgroundSync, after its await: processPendingOperations
\* caught every failure itself, so the try block goes on, and the queue of the
\* closure, which armed the timer, is not empty: 'Sync Complete' is added.
\* A drain started elsewhere has nothing after it.
SyncPendingDone(src, notes) ==
    IF src = "timer" THEN [notes EXCEPT !.success = @ + 1] ELSE notes

\* The dispatch a drain awaits settles; the loop body finishes and the loop
\* takes its next entry or ends.
Settle(dr, ok) ==
    /\ BagIn(dr, drains)
    /\ (dr.todo = <<>> /\ dr.src = "timer") => notifications.success < MaxNotifications
    /\ LET op == dr.cur
           q1 == AfterDispatch(pendingOperations, op, ok)
           rest == drains (-) SetToBag({dr})
       IN /\ pendingOperations' = q1
          /\ bgTimer' = BackgroundSyncEffect(isOnline, pendingOperations, isOnline, q1, bgTimer)
          /\ synced' = IF ok THEN synced \cup {[id |-> op.id, type |-> op.type, data |-> op.data]}
                        ELSE synced
          /\ failures' = [i \in Ids(q1) |->
                            IF i = op.id /\ ~ok THEN failures[i] + 1 ELSE failures[i]]
          /\ notifications' = IF dr.todo = <<>> THEN SyncPendingDone(dr.src, notifications)
                              ELSE notifications
          /\ drains' = IF dr.todo = <<>> THEN rest
                        ELSE LET k == NextOperation(dr.todo)
                             IN rest (+) SetToBag({[dr EXCEPT !.cur = dr.todo[k],
                                                              !.todo = DropAt(dr.todo, k)]})
    /\ UNCHANGED <<isOnline, cachedTasks, lastSyncTimestamp, nextId>>
    /\ UNCHANGED <<syncVars, cacheVars>>

\* ------------------------------------------- useRealTimeSync: the resync
\* 'online' event where useRealTimeSync is mounted: the interval effect (no
\* cleanup was left by the offline render) syncs and arms the interval, then
\* the reconnect effect syncs again.
SyncHandleOnline ==
    /\ ~isOnline
    /\ isOnline' = TRUE
    /\ BagCardinality(syncing) + 2 <= MaxSyncs
    /\ syncing' = SyncData(TRUE, TRUE, SyncData(TRUE, TRUE, syncing))
    /\ intervalRef' = TRUE
    /\ liveIntervals' = liveIntervals + 1
    /\ UNCHANGED <<pendingOperations, cachedTasks, lastSyncTimestamp, nextId, warnings, now>>
    /\ UNCHANGED <<queueVars, cacheVars>>

\* 'offline' event where useRealTimeSync is mounted: the cleanup of the online
\* render's effect clears the interval, and the effect body clears it again.
SyncHandleOffline ==
    /\ isOnline
    /\ isOnline' = FALSE
    /\ intervalRef' = FALSE
    /\ liveIntervals' = IF intervalRef THEN liveIntervals - 1 ELSE liveIntervals
    /\ UNCHANGED <<pendingOperations, cachedTasks, lastSyncTimestamp, nextId, syncing, warnings, now>>
    /\ UNCHANGED <<queueVars, cacheVars>>

\* A live interval fires: syncData of the render that armed it (online).
IntervalTick ==
    /\ liveIntervals > 0
    /\ BagCardinality(syncing) < MaxSyncs
    /\ syncing' = SyncData(TRUE, isOnline, syncing)
    /\ UNCHANGED <<intervalRef, liveIntervals, warnings, now>>
    /\ UNCHANGED <<storeVars, queueVars, cacheVars>>

\* syncNow, as the last render returned it.
SyncNow ==
    /\ BagCardinality(syncing) < MaxSyncs
    /\ syncing' = SyncData(isOnline, isOnline, syncing)
    /\ UNCHANGED <<intervalRef, liveIntervals, warnings, now>>
    /\ UNCHANGED <<storeVars, queueVars, cacheVars>>

\* syncData taking a failed invalidation for the loss of the connection.
SyncSettle_GoesOffline(s, ok) ==
    /\ BagIn(s, syncing)
    /\ ok \/ warnings < MaxWarnings
    /\ syncing' = syncing (-) SetToBag({s})
    /\ warnings' = IF ok THEN warnings ELSE warnings + 1
    /\ lastSyncTimestamp' = IF ok THEN now ELSE lastSyncTimestamp
    /\ isOnline' = IF ok THEN isOnline ELSE FALSE
    /\ UNCHANGED <<intervalRef, liveIntervals, now>>
    /\ UNCHANGED <<pendingOperations, cachedTasks, nextId>>
    /\ UNCHANGED <<queueVars, cacheVars>>

\* The invalidation a syncData call awaits settles: on success the timestamp
\* is stored, on failure the warning with its Retry action is shown.
SyncSettle(s, ok) ==
    /\ BagIn(s, syncing)
    /\ ok \/ warnings < MaxWarnings
    /\ syncing' = syncing (-) SetToBag({s})
    /\ warnings' = IF ok THEN warnings ELSE warnings + 1
    /\ lastSyncTimestamp' = IF ok THEN now ELSE lastSyncTimestamp
    /\ UNCHANGED <<intervalRef, liveIntervals, now>>
    /\ UNCHANGED <<isOnline, pendingOperations, cachedTasks, nextId>>
    /\ UNCHANGED <<queueVars, cacheVars>>

\* The user clicks Retry on a 'Sync Failed' warning: the syncData of the
\* render that issued the failed sync, whose closure holds isOnline = true.
RetryClick ==
    /\ warnings > 0
    /\ BagCardinality(syncing) < MaxSyncs
    /\ syncing' = SyncData(TRUE, isOnline, syncing)
    /\ UNCHANGED <<intervalRef, liveIntervals, warnings, now>>
    /\ UNCHANGED <<storeVars, queueVars, cacheVars>>

\* A warning leaves the display (its 5 s timer, or the close button).
DismissWarning ==
    /\ warnings > 0
    /\ warnings' = warnings - 1
    /\ UNCHANGED <<intervalRef, liveIntervals, syncing, now>>
    /\ UNCHANGED <<storeVars, queueVars, cacheVars>>

\* Time passes.
ClockTick ==
    /\ now < MaxClock
    /\ now' = now + 1
    /\ UNCHANGED <<intervalRef, liveIntervals, syncing, warnings>>
    /\ UNCHANGED <<storeVars, queueVars, cacheVars>>

SyncNext ==
    \/ Alone(SyncHandleOnline)
    \/ Alone(SyncHandleOffline)
    \/ Alone(IntervalTick)
    \/ Alone(SyncNow)
    \/ \E s \in BagToSet(syncing), ok \in BOOLEAN : Alone(SyncSettle(s, ok))
    \/ Alone(RetryClick)
    \/ Alone(DismissWarning)
    \/ Alone(ClockTick)

SpecSync == SyncInit /\ [][SyncNext]_vars

\* ------------------------------------------- hooks/useTasks: the mutations
\* What the components hand to mutate(), one or two per hook.
MutationInputs ==
    { [kind |-> "create",   id |-> NewTaskId, updates |-> [status |-> "PENDING"]],
      [kind |-> "update",   id |-> 7, updates |-> [status |-> "COMPLETED"]],
      [kind |-> "update",   id |-> 8, updates |-> [status |-> "PENDING"]],
      [kind |-> "delete",   id |-> 7, updates |-> [status |-> "PENDING"]],
      [kind |-> "complete", id |-> 7, updates |-> [status |-> "COMPLETED"]],
      [kind |-> "complete", id |-> 8, updates |-> [status |-> "COMPLETED"]] }

Cache == [detail |-> detail, lists |-> lists]
NoSnapshot == [detail |-> <<>>, lists |-> <<>>]

Paused(input) == [kind |-> input.kind, id |-> input.id, updates |-> input.updates,
                  phase |-> "paused", before |-> NoSnapshot]

\* The mutation whose mutationFn has run; before is the cache it found.
Running(m, c) == [m EXCEPT !.phase = "inflight", !.before = c]

\* lib/api withOptimisticUpdate(optimisticUpdate, rollback, apiCall): the
\* hooks that go through it, whose failed call runs their rollback.
RollbackRuns(m, ok) == ~ok /\ m.kind \in {"update", "delete", "complete"}

\* mutationFn: the optimistic update, then the request is issued.
\* removeQueries in useDeleteTask takes the detail query's refetch with it.
RunMutationFn(m) ==
    LET c == Optimistic(Cache, m) IN
    /\ detail' = c.detail
    /\ lists' = c.lists
    /\ refetching' = IF m.kind = "delete"
                     THEN [refetching EXCEPT !.detail = @ \ {m.id}] ELSE refetching

\* mutate(input) of one of the four hooks. The query client's default network
\* mode holds the mutation back while the browser is offline.
Mutate(input) ==
    /\ mutations < MaxMutations
    /\ mutations' = mutations + 1
    /\ IF isOnline
       THEN /\ RunMutationFn(Paused(input))
            /\ muts' = muts (+) SetToBag({Running(Paused(input), Cache)})
       ELSE /\ muts' = muts (+) SetToBag({Paused(input)})
            /\ UNCHANGED <<detail, lists, refetching>>
    /\ UNCHANGED <<server, lastSettled>>
    /\ UNCHANGED <<storeVars, queueVars, syncVars>>

\* The query client resumes a held-back mutation once the browser is online.
ResumeMutation(m) ==
    /\ BagIn(m, muts)
    /\ m.phase = "paused"
    /\ isOnline
    /\ RunMutationFn(m)
    /\ muts' = (muts (-) SetToBag({m})) (+) SetToBag({Running(m, Cache)})
    /\ UNCHANGED <<server, mutations, lastSettled>>
    /\ UNCHANGED <<storeVars, queueVars, syncVars>>

Invalidate(inv) ==
    [detail |-> refetching.detail \cup inv.detail, list |-> refetching.list \cup inv.list]

\* The request of a running mutation settles: onSuccess with the response, or
\* the rollback and onError.
MutationSettle(m, ok) ==
    /\ BagIn(m, muts)
    /\ m.phase = "inflight"
    /\ ok => isOnline /\ ServerAccepts(server, m)
    /\ muts' = muts (-) SetToBag({m})
    /\ LET response == IF ok THEN ServerResponse(server, m) ELSE NoData
           c == IF ok THEN OnSuccess(Cache, m, response) ELSE Cache
       IN /\ server' = IF ok THEN ServerApply(server, m) ELSE server
          /\ detail' = c.detail
          /\ lists' = c.lists
          /\ refetching' = Invalidate(
                IF (ok /\ m.kind = "create") \/ RollbackRuns(m, ok)
                THEN Invalidated(Cache, m, ok) ELSE [detail |-> {}, list |-> {}])
          /\ lastSettled' = [kind |-> m.kind, id |-> m.id, ok |-> ok,
                             before |-> m.before, response |-> response]
    /\ UNCHANGED mutations
    /\ UNCHANGED <<storeVars, queueVars, syncVars>>

\* The refetch of an invalidated (or not yet loaded) list query settles; a
\* failed refetch keeps the data the query holds.
RefetchList(key, ok) ==
    /\ key \in refetching.list \/ ~HasData(lists[key])
    /\ isOnline
    /\ lists' = IF ok THEN [lists EXCEPT ![key] = ServerList(server, key)] ELSE lists
    /\ refetching' = [refetching EXCEPT !.list = @ \ {key}]
    /\ ok \/ key \in refetching.list
    /\ UNCHANGED <<detail, server, muts, mutations, lastSettled>>
    /\ UNCHANGED <<storeVars, queueVars, syncVars>>

\* The refetch of an invalidated detail query settles.
RefetchDetail(id, ok) ==
    /\ id \in refetching.detail
    /\ isOnline
    /\ detail' = IF ok /\ id \in DOMAIN server
                 THEN [detail EXCEPT ![id] = server[id]] ELSE detail
    /\ refetching' = [refetching EXCEPT !.detail = @ \ {id}]
    /\ UNCHANGED <<lists, server, muts, mutations, lastSettled>>
    /\ UNCHANGED <<storeVars, queueVars, syncVars>>

CacheNext ==
    \/ Alone(HandleOnline)
    \/ Alone(HandleOffline)
    \/ \E input \in MutationInputs : Alone(Mutate(input))
    \/ \E m \in BagToSet(muts) : Alone(ResumeMutation(m))
    \/ \E m \in BagToSet(muts), ok \in BOOLEAN : Alone(MutationSettle(m, ok))
    \/ \E key \in ListKeys, ok \in BOOLEAN : Alone(RefetchList(key, ok))
    \/ \E id \in TaskIds, ok \in BOOLEAN : Alone(RefetchDetail(id, ok))

\* useOnlineStatus and the task mutation hooks over the query cache.
SpecCache == Init /\ [][CacheNext]_vars

\* ------------------------------------------------- every hook mounted
\* An event of the session the app-wide model follows, which ends after
\* MaxEvents of them.
Counted(A) == events < MaxEvents /\ events' = events + 1 /\ A /\ UNCHANGED viewVars

\* window 'online' event where useOnlineStatus, useBackgroundSync and
\* useRealTimeSync are mounted: handleOnline, then the render and its effects.
AppHandleOnline ==
    /\ ~isOnline
    /\ isOnline' = TRUE
    /\ StartDrain(isOnline, pendingOperations, "reconnect")
    /\ bgTimer' = BackgroundSyncEffect(isOnline, pendingOperations,
                                       TRUE, pendingOperations, bgTimer)
    /\ BagCardinality(syncing) + 2 <= MaxSyncs
    /\ syncing' = SyncData(TRUE, TRUE, SyncData(TRUE, TRUE, syncing))
    /\ intervalRef' = TRUE
    /\ liveIntervals' = liveIntervals + 1
    /\ UNCHANGED <<pendingOperations, cachedTasks, lastSyncTimestamp, nextId>>
    /\ UNCHANGED <<synced, failures, notifications, warnings, now, cacheVars>>

\* window 'offline' event with the same hooks mounted.
AppHandleOffline ==
    /\ isOnline
    /\ isOnline' = FALSE
    /\ bgTimer' = BackgroundSyncEffect(isOnline, pendingOperations,
                                       FALSE, pendingOperations, bgTimer)
    /\ intervalRef' = FALSE
    /\ liveIntervals' = IF intervalRef THEN liveIntervals - 1 ELSE liveIntervals
    /\ UNCHANGED <<pendingOperations, cachedTasks, lastSyncTimestamp, nextId>>
    /\ UNCHANGED <<drains, synced, failures, notifications, syncing, warnings, now, cacheVars>>

AppNext ==
    \/ Counted(AppHandleOnline)
    \/ Counted(AppHandleOffline)
    \/ \E operation \in OperationInputs : Counted(QueueOperation(operation))
    \/ Counted(TimerFire)
    \/ Counted(ManualSync)
    \/ \E dr \in BagToSet(drains) : Counted(Settle(dr, TRUE))
    \/ \E dr \in BagToSet(drains) : Counted(Settle(dr, FALSE))
    \/ Counted(IntervalTick)
    \/ Counted(SyncNow)
    \/ \E s \in BagToSet(syncing) : Counted(SyncSettle(s, TRUE))
    \/ \E s \in BagToSet(syncing) : Counted(SyncSettle(s, FALSE))
    \/ Counted(RetryClick)
    \/ Counted(DismissWarning)
    \/ Counted(ClockTick)
    \/ \E input \in MutationInputs : Counted(Mutate(input))
    \/ \E m \in BagToSet(muts) : Counted(ResumeMutation(m))
    \/ \E m \in BagToSet(muts), ok \in BOOLEAN : Counted(MutationSettle(m, ok))
    \/ \E key \in ListKeys, ok \in BOOLEAN : Counted(RefetchList(key, ok))
    \/ \E id \in TaskIds, ok \in BOOLEAN : Counted(RefetchDetail(id, ok))

SpecApp == SyncInit /\ [][AppNext]_vars

\* ------------------------------------------------- App: the task handlers
TaskCreateInputs ==
    { [title |-> "report", description |-> "draft", due_date |-> "none",
       priority |-> "MEDIUM", category |-> "Work", ai_generated |-> FALSE] }

\* TaskUpdate: every field optional. The edit form sends title and
\* description; the type also admits a status.
TaskUpdateInputs ==
    { [title |-> "edited", description |-> "edited"] }
    \cup { [status |-> st] : st \in TaskStatus }

GeneratedTask(title, priority) ==
    [title |-> title, description |-> "generated", suggested_due_date |-> "weekend",
     suggested_priority |-> priority, suggested_category |-> "Party Planning",
     confidence_score |-> 1]

\* What the assistant suggests, and what TaskPreview hands over of it: the
\* selected suggestions in the order they were selected.
GeneratedTasks == << GeneratedTask("venue", "HIGH"), GeneratedTask("cake", "MEDIUM") >>
Selections ==
    { <<>>, <<GeneratedTasks[1]>>, <<GeneratedTasks[2]>>,
      GeneratedTasks, <<GeneratedTasks[2], GeneratedTasks[1]>> }

UiIds == { tasks[i].id : i \in 1..Len(tasks) }

\* {...task, ...updates}
Spread(task, updates) ==
    [f \in DOMAIN task |-> IF f \in DOMAIN updates THEN updates[f] ELSE task[f]]

handleCreateTask(taskData) ==
    /\ uiNextId - Len(mockTasks) <= MaxMade
    /\ tasks' = << UiTask(uiNextId, taskData.title, taskData.description, taskData.due_date,
                          taskData.priority, taskData.category, "PENDING",
                          taskData.ai_generated) >> \o tasks
    /\ uiNextId' = uiNextId + 1
    /\ UNCHANGED freshResponse

handleUpdateTask(id, updates) ==
    /\ tasks' = [i \in 1..Len(tasks) |->
                    IF tasks[i].id = id THEN Spread(tasks[i], updates) ELSE tasks[i]]
    /\ UNCHANGED <<freshResponse, uiNextId>>

handleDeleteTask(id) ==
    /\ tasks' = SelectSeq(tasks, LAMBDA task : task.id # id)
    /\ UNCHANGED <<freshResponse, uiNextId>>

\* The updater handleToggleComplete hands to setTasks.
ToggleComplete(prev, id) ==
    [i \in 1..Len(prev) |->
        IF prev[i].id = id
        THEN [prev[i] EXCEPT !.status = IF @ = "COMPLETED" THEN "PENDING" ELSE "COMPLETED"]
        ELSE prev[i]]

handleToggleComplete(id) ==
    /\ tasks' = ToggleComplete(tasks, id)
    /\ UNCHANGED <<freshResponse, uiNextId>>

\* handleSendPrompt, once sendPrompt has returned the response.
handleSendPrompt(generated) ==
    /\ freshResponse' = IF Len(generated) > 0 THEN generated ELSE NoResponse
    /\ UNCHANGED <<tasks, uiNextId>>

\* The Task handleAcceptTasks makes of one generated task, with a suggestion
\* kept as a suggestion.
AcceptedTask_NotMarked(task, id) ==
    UiTask(id, task.title, task.description, task.suggested_due_date,
           task.suggested_priority, task.suggested_category, "PENDING", FALSE)

\* The Task handleAcceptTasks makes of one generated task.
AcceptedTask(task, id) ==
    UiTask(id, task.title, task.description, task.suggested_due_date,
           task.suggested_priority, task.suggested_category, "PENDING", TRUE)

handleAcceptTasks(generatedTasks) ==
    /\ uiNextId - Len(mockTasks) + Len(generatedTasks) <= MaxMade + 1
    /\ tasks' = [i \in 1..Len(generatedTasks) |->
                    AcceptedTask(generatedTasks[i], uiNextId + i - 1)] \o tasks
    /\ uiNextId' = uiNextId + Len(generatedTasks)
    /\ freshResponse' = NoResponse

handleRejectTasks ==
    /\ freshResponse' = NoResponse
    /\ UNCHANGED <<tasks, uiNextId>>

\* An action of the App's own state.
InApp(A) ==
    A /\ UNCHANGED <<storeVars, queueVars, syncVars, cacheVars, events, persistVars, chatVars,
                     observerVars, noteVars, previewVars, listVars>>

TasksNext ==
    \/ \E taskData \in TaskCreateInputs : InApp(handleCreateTask(taskData))
    \/ \E id \in UiIds, updates \in TaskUpdateInputs : InApp(handleUpdateTask(id, updates))
    \/ \E id \in UiIds : InApp(handleDeleteTask(id))
    \/ \E id \in UiIds : InApp(handleToggleComplete(id))
    \/ \E generated \in {<<>>, GeneratedTasks} : InApp(handleSendPrompt(generated))
    \/ \E generatedTasks \in Selections : InApp(handleAcceptTasks(generatedTasks))
    \/ InApp(handleRejectTasks)

\* The App component's handlers over its task list.
TasksInit == Init /\ isOnline /\ cachedTasks = <<>>

SpecTasks == TasksInit /\ [][TasksNext]_vars

\* ------------------------------------------------- useChatConversation
MaxPrompts == 2
PromptInputs == {"party", "trip"}

\* The page of messages GET /chat/messages answers with.
ChatServerPage(messages) == [items |-> messages, total |-> Len(messages)]

\* POST /chat/generate-tasks: the backend keeps the prompt and its answer.
ChatServerApply(messages, content) ==
    << [id |-> Len(messages) + 2, content |-> "suggestions", role |-> "ASSISTANT"],
       [id |-> Len(messages) + 1, content |-> content, role |-> "USER"] >> \o messages

\* The message addUserMessage makes of a prompt; the nth gets the temporary
\* id -n.
UserMessage(content, n) == [id |-> 0 - n, content |-> content, role |-> "USER"]

\* The updater addUserMessage hands to setQueryData.
addUserMessage(old, userMessage) ==
    IF ~HasData(old) THEN [items |-> <<userMessage>>, total |-> 1]
    ELSE [items |-> <<userMessage>> \o old.items, total |-> old.total + 1]

\* isGenerating, as useChatConversation returns it; generateTasks.isPending
\* holds from mutateAsync to the settling of the mutation, held back or not.
isGenerating == isManuallyLoading \/ generating # EmptyBag

\* A sendPrompt whose finally block runs only after a successful request.
ManualLoadingAfter_OnSuccessOnly(ok) == ~ok

\* The finally block of sendPrompt: setIsManuallyLoading(false).
ManualLoadingAfter(ok) == FALSE

\* handleSendPrompt up to its await, from the PromptInput form, which is
\* disabled while isGenerating: the fresh response is cleared, sendPrompt
\* adds the user message to the cached page, raises the loading flag and
\* triggers the mutation, which the query client holds back while the browser
\* is offline.
SendPrompt(content) ==
    /\ prompts < MaxPrompts
    /\ ~isGenerating
    /\ isManuallyLoading' = TRUE
    /\ prompts' = prompts + 1
    /\ freshResponse' = NoResponse
    /\ chatPage' = addUserMessage(chatPage, UserMessage(content, prompts + 1))
    /\ generating' = generating (+) SetToBag({
            [content |-> content, message |-> UserMessage(content, prompts + 1),
             before |-> chatPage, phase |-> IF isOnline THEN "inflight" ELSE "paused"] })
    /\ UNCHANGED <<serverChat, chatRefetching, tasks, uiNextId>>

\* The query client resumes a held-back mutation once the browser is online.
ResumePrompt(g) ==
    /\ BagIn(g, generating)
    /\ g.phase = "paused"
    /\ isOnline
    /\ generating' = (generating (-) SetToBag({g})) (+) SetToBag({[g EXCEPT !.phase = "inflight"]})
    /\ UNCHANGED <<chatPage, serverChat, chatRefetching, prompts, isManuallyLoading, uiVars>>

\* The generate-tasks request settles. Success: onSuccess invalidates the chat
\* messages and handleSendPrompt stores the fresh response. Failure: onError
\* logs, sendPrompt rethrows and handleSendPrompt notifies. Either way the
\* finally block of sendPrompt has run before.
GenerateSettle(g, ok) ==
    /\ BagIn(g, generating)
    /\ g.phase = "inflight"
    /\ isManuallyLoading' = ManualLoadingAfter(ok)
    /\ generating' = generating (-) SetToBag({g})
    /\ serverChat' = IF ok THEN ChatServerApply(serverChat, g.content) ELSE serverChat
    /\ chatRefetching' = (chatRefetching \/ ok)
    /\ freshResponse' = IF ok THEN GeneratedTasks ELSE freshResponse
    /\ UNCHANGED <<chatPage, prompts, tasks, uiNextId>>

\* refreshMessages: the chat messages are invalidated.
RefreshMessages ==
    /\ ~chatRefetching
    /\ chatRefetching' = TRUE
    /\ UNCHANGED <<chatPage, serverChat, generating, prompts, isManuallyLoading, uiVars>>

\* The fetch of the chat page (not yet loaded, or invalidated) settles; a
\* failed one keeps the data the query holds.
RefetchMessages(ok) ==
    /\ chatRefetching \/ ~HasData(chatPage)
    /\ isOnline
    /\ ok \/ chatRefetching
    /\ chatPage' = IF ok THEN ChatServerPage(serverChat) ELSE chatPage
    /\ chatRefetching' = FALSE
    /\ UNCHANGED <<serverChat, generating, prompts, isManuallyLoading, uiVars>>

\* An action of the chat conversation.
InChat(A) ==
    A /\ UNCHANGED <<storeVars, queueVars, syncVars, cacheVars, events, persistVars, observerVars, noteVars, previewVars, listVars>>

ChatNext ==
    \/ Alone(HandleOnline)
    \/ Alone(HandleOffline)
    \/ \E content \in PromptInputs : InChat(SendPrompt(content))
    \/ \E g \in BagToSet(generating) : InChat(ResumePrompt(g))
    \/ \E g \in BagToSet(generating), ok \in BOOLEAN : InChat(GenerateSettle(g, ok))
    \/ InChat(RefreshMessages)
    \/ \E ok \in BOOLEAN : InChat(RefetchMessages(ok))

\* useOnlineStatus and the chat conversation over the query cache.
SpecChat == TasksInit /\ [][ChatNext]_vars

\* The same, where a request that was sent settles and the query client
\* resumes a held-back mutation while the browser is online.
FairChat ==
    /\ SpecChat
    /\ WF_vars(\E g \in BagToSet(generating), ok \in BOOLEAN : InChat(GenerateSettle(g, ok)))
    /\ WF_vars(\E g \in BagToSet(generating) : InChat(ResumePrompt(g)))

\* ------------------------------------------- the queries and their age
\* Time passes in steps of the resync interval; age counts the steps since
\* the query's data arrived, up to the step where it turns stale.
StaleTime(key) == IF key = "chat" THEN ChatStaleTime ELSE TaskStaleTime
StaleSteps(key) == StaleTime(key) \div SyncInterval

\* A query client that takes every query for stale.
IsStale_Always(q, key) == TRUE

\* The query has no data, was invalidated, or its data is staleTime old.
IsStale(q, key) == ~q.loaded \/ q.invalidated \/ q.age >= StaleSteps(key)

\* A query client that fetches for every observer.
FetchesOnMount_EveryObserver(q, key) == IsStale(q, key)

\* A mounting observer starts a fetch when the query is stale, and joins the
\* fetch that is under way.
FetchesOnMount(q, key) == IsStale(q, key) /\ ~q.fetching

\* A component calls useTasks, useTask or useChatMessages with the key.
Get(key) ==
    /\ queries[key].observers < MaxObservers
    /\ FetchesOnMount(queries[key], key) => networkCalls < MaxNetworkCalls
    /\ queries' = [queries EXCEPT ![key] =
                      [@ EXCEPT !.observers = @ + 1,
                                !.fetching = @ \/ FetchesOnMount(queries[key], key)]]
    /\ networkCalls' = networkCalls + (IF FetchesOnMount(queries[key], key) THEN 1 ELSE 0)

\* The component unmounts; a fetch under way goes on.
Unmount(key) ==
    /\ queries[key].observers > 0
    /\ queries' = [queries EXCEPT ![key].observers = @ - 1]
    /\ UNCHANGED networkCalls

\* The request of a query settles.
FetchSettle(key, ok) ==
    /\ queries[key].fetching
    /\ queries' = [queries EXCEPT ![key] =
                      IF ok THEN [@ EXCEPT !.loaded = TRUE, !.age = 0,
                                           !.invalidated = FALSE, !.fetching = FALSE]
                      ELSE [@ EXCEPT !.fetching = FALSE]]
    /\ UNCHANGED networkCalls

\* syncData's invalidateQueries of the task lists: the list query is marked
\* invalidated and, when a component observes it, refetched; a fetch under
\* way that has data to replace is cancelled for the new one.
InvalidateLists ==
    LET q == queries["list"]
        issues == q.observers > 0 /\ (~q.fetching \/ q.loaded)
    IN  /\ q # NoQuery
        /\ issues => networkCalls < MaxNetworkCalls
        /\ queries' = [queries EXCEPT !["list"] =
                          [@ EXCEPT !.invalidated = TRUE,
                                    !.fetching = @ \/ q.observers > 0]]
        /\ networkCalls' = networkCalls + (IF issues THEN 1 ELSE 0)

\* The resync interval passes.
Elapse ==
    /\ \E key \in QueryKeys : queries[key].loaded /\ queries[key].age < StaleSteps(key)
    /\ queries' = [key \in QueryKeys |->
                      IF queries[key].loaded /\ queries[key].age < StaleSteps(key)
                      THEN [queries[key] EXCEPT !.age = @ + 1] ELSE queries[key]]
    /\ UNCHANGED networkCalls

\* An event of the observed queries.
InQueries(A) ==
    A /\ UNCHANGED <<storeVars, queueVars, syncVars, cacheVars, events, uiVars, persistVars,
                     chatVars, noteVars, previewVars, listVars>>

QueriesNext ==
    \/ \E key \in QueryKeys : InQueries(Get(key))
    \/ \E key \in QueryKeys : InQueries(Unmount(key))
    \/ \E key \in QueryKeys, ok \in BOOLEAN : InQueries(FetchSettle(key, ok))
    \/ InQueries(InvalidateLists)
    \/ InQueries(Elapse)

\* The views' queries while the browser is online.
SpecQueries == TasksInit /\ [][QueriesNext]_vars

\* ------------------------------------------- the offline store, persisted
\* The calls of the store's own actions, by whoever holds the store, and the
\* page reloads between them.
MaxCalls == 6

ChatMessages == << [id |-> 1, content |-> "plan a party", role |-> "USER"] >>
CachedTask7 == [id |-> 7, status |-> "PENDING"]
SyncStamps == {1, 2}

\* The state of the store, as the persist middleware sees it.
OfflineState ==
    [isOnline |-> isOnline, pendingOperations |-> pendingOperations,
     cachedTasks |-> cachedTasks, cachedChatMessages |-> cachedChatMessages,
     lastSyncTimestamp |-> lastSyncTimestamp]

\* A store whose persist options leave the queue out.
partialize_WithoutQueue(state) ==
    [cachedTasks |-> state.cachedTasks,
     cachedChatMessages |-> state.cachedChatMessages,
     lastSyncTimestamp |-> state.lastSyncTimestamp]

\* persist option partialize: everything except the online status.
partialize(state) ==
    [pendingOperations |-> state.pendingOperations,
     cachedTasks |-> state.cachedTasks,
     cachedChatMessages |-> state.cachedChatMessages,
     lastSyncTimestamp |-> state.lastSyncTimestamp]

\* JSON text, as the tree of values it spells out.
JsonString(s) == [json |-> "string", text |-> s]
JsonNumber(n) == [json |-> "number", text |-> n]
JsonArray(items) == [json |-> "array", text |-> items]
JsonObject(members) == [json |-> "object", text |-> members]

StringifyOperation(op) ==
    JsonObject([id |-> JsonString(op.id), type |-> JsonString(op.type),
                data |-> JsonObject([id |-> JsonNumber(op.data.id),
                                     status |-> JsonString(op.data.status)]),
                retryCount |-> JsonNumber(op.retryCount)])
StringifyTask(task) ==
    JsonObject([id |-> JsonNumber(task.id), status |-> JsonString(task.status)])
StringifyMessage(message) ==
    JsonObject([id |-> JsonNumber(message.id), content |-> JsonString(message.content),
                role |-> JsonString(message.role)])

ParseOperation(j) ==
    [id |-> j.text.id.text, type |-> j.text.type.text,
     data |-> [id |-> j.text.data.text.id.text, status |-> j.text.data.text.status.text],
     retryCount |-> j.text.retryCount.text]
ParseTask(j) == [id |-> j.text.id.text, status |-> j.text.status.text]
ParseMessage(j) ==
    [id |-> j.text.id.text, content |-> j.text.content.text, role |-> j.text.role.text]

\* JSON.stringify({ state, version: 0 }) of a partial state: a field the
\* partial state lacks is not written.
Stringify(state) ==
    JsonObject(
      [ version |-> JsonNumber(0),
        state |-> JsonObject(
          [f \in DOMAIN state |->
              CASE f = "pendingOperations" ->
                     JsonArray([i \in 1..Len(state[f]) |-> StringifyOperation(state[f][i])])
                [] f = "cachedTasks" ->
                     JsonArray([i \in 1..Len(state[f]) |-> StringifyTask(state[f][i])])
                [] f = "cachedChatMessages" ->
                     JsonArray([i \in 1..Len(state[f]) |-> StringifyMessage(state[f][i])])
                [] f = "lastSyncTimestamp" -> JsonNumber(state[f]) ]) ])

\* JSON.parse of the stored text, down to the persisted state.
Parse(j) ==
    LET members == j.text.state.text
    IN  [f \in DOMAIN members |->
            CASE f = "pendingOperations" ->
                   [i \in 1..Len(members[f].text) |-> ParseOperation(members[f].text[i])]
              [] f = "cachedTasks" ->
                   [i \in 1..Len(members[f].text) |-> ParseTask(members[f].text[i])]
              [] f = "cachedChatMessages" ->
                   [i \in 1..Len(members[f].text) |-> ParseMessage(members[f].text[i])]
              [] f = "lastSyncTimestamp" -> members[f].text ]

\* localStorage['ollama-todo-offline-state']: persist writes it at every set.
Storage == Stringify(partialize(OfflineState))

\* What create() makes of the stored text when the page loads: the initial
\* state with the persisted fields over it.
Hydrated(online, stored) ==
    Spread([isOnline |-> online, pendingOperations |-> <<>>, cachedTasks |-> <<>>,
            cachedChatMessages |-> <<>>, lastSyncTimestamp |-> 0],
           Parse(stored))

SetOnlineStatus(online) ==
    /\ isOnline' = online
    /\ UNCHANGED <<pendingOperations, cachedTasks, lastSyncTimestamp, nextId, cachedChatMessages>>

RemovePendingOperation(id) ==
    /\ pendingOperations' = removePendingOperation(pendingOperations, id)
    /\ UNCHANGED <<isOnline, cachedTasks, lastSyncTimestamp, nextId, cachedChatMessages>>

IncrementRetryCount(id) ==
    /\ pendingOperations' = incrementRetryCount(pendingOperations, id)
    /\ UNCHANGED <<isOnline, cachedTasks, lastSyncTimestamp, nextId, cachedChatMessages>>

ClearPendingOperations ==
    /\ pendingOperations' = <<>>
    /\ UNCHANGED <<isOnline, cachedTasks, lastSyncTimestamp, nextId, cachedChatMessages>>

SetCachedTasks(cached) ==
    /\ cachedTasks' = cached
    /\ UNCHANGED <<isOnline, pendingOperations, lastSyncTimestamp, nextId, cachedChatMessages>>

AddCachedTask(task) ==
    /\ cachedTasks' = Append(cachedTasks, task)
    /\ UNCHANGED <<isOnline, pendingOperations, lastSyncTimestamp, nextId, cachedChatMessages>>

UpdateCachedTask(id, updates) ==
    /\ cachedTasks' = updateCachedTask(cachedTasks, id, updates)
    /\ UNCHANGED <<isOnline, pendingOperations, lastSyncTimestamp, nextId, cachedChatMessages>>

RemoveCachedTask(id) ==
    /\ cachedTasks' = SelectSeq(cachedTasks, LAMBDA task : task.id # id)
    /\ UNCHANGED <<isOnline, pendingOperations, lastSyncTimestamp, nextId, cachedChatMessages>>

SetCachedChatMessages(messages) ==
    /\ cachedChatMessages' = messages
    /\ UNCHANGED <<isOnline, pendingOperations, cachedTasks, lastSyncTimestamp, nextId>>

AddCachedChatMessage(message) ==
    /\ cachedChatMessages' = <<message>> \o cachedChatMessages
    /\ UNCHANGED <<isOnline, pendingOperations, cachedTasks, lastSyncTimestamp, nextId>>

SetLastSyncTimestamp(timestamp) ==
    /\ lastSyncTimestamp' = timestamp
    /\ UNCHANGED <<isOnline, pendingOperations, cachedTasks, nextId, cachedChatMessages>>

\* The page is loaded again: the store is created anew from navigator.onLine
\* and the stored text.
Reload ==
    \E online \in BOOLEAN :
        LET state == Hydrated(online, Storage)
        IN  /\ isOnline' = state.isOnline
            /\ pendingOperations' = state.pendingOperations
            /\ cachedTasks' = state.cachedTasks
            /\ cachedChatMessages' = state.cachedChatMessages
            /\ lastSyncTimestamp' = state.lastSyncTimestamp
            /\ UNCHANGED nextId

\* One call of a store action.
InStore(A) ==
    /\ events < MaxCalls
    /\ events' = events + 1
    /\ A
    /\ UNCHANGED <<queueVars, syncVars, cacheVars, uiVars, chatVars, observerVars, returned, reloads, noteVars, previewVars, listVars>>

\* One call of queueOperation, and what it returned.
QueueOperationCall(operation) ==
    /\ events < MaxCalls
    /\ events' = events + 1
    /\ QueueOperation(operation)
    /\ returned' = <<~isOnline>>
    /\ UNCHANGED <<uiVars, chatVars, observerVars, cachedChatMessages, reloads, noteVars, previewVars, listVars>>

ReloadPage ==
    /\ events < MaxCalls
    /\ events' = events + 1
    /\ Reload
    /\ returned' = <<>>
    /\ reloads' = reloads + 1
    /\ UNCHANGED <<queueVars, syncVars, cacheVars, uiVars, chatVars, observerVars, noteVars, previewVars, listVars>>

StoreNext ==
    \/ \E online \in BOOLEAN : InStore(SetOnlineStatus(online))
    \/ \E operation \in OperationInputs : QueueOperationCall(operation)
    \/ \E id \in Ids(pendingOperations) : InStore(RemovePendingOperation(id))
    \/ \E id \in Ids(pendingOperations) : InStore(IncrementRetryCount(id))
    \/ InStore(ClearPendingOperations)
    \/ \E cached \in PersistedCaches : InStore(SetCachedTasks(cached))
    \/ InStore(AddCachedTask(CachedTask7))
    \/ InStore(UpdateCachedTask(7, [status |-> "COMPLETED"]))
    \/ InStore(RemoveCachedTask(7))
    \/ \E messages \in {<<>>, ChatMessages} : InStore(SetCachedChatMessages(messages))
    \/ InStore(AddCachedChatMessage(ChatMessages[1]))
    \/ \E timestamp \in SyncStamps : InStore(SetLastSyncTimestamp(timestamp))
    \/ ReloadPage

SpecStore == Init /\ [][StoreNext]_vars

\* ------------------------------------- NotificationSystem and useUIStore
MaxShown == 3
DefaultDuration == 5000
NotificationTypes == {"success", "error", "warning", "info"}

\* A notification made without a duration.
NoDuration == <<>>

\* A useNotify whose error notifications carry no duration either.
notify_AllTimed(type) == [type |-> type, duration |-> NoDuration]

\* useNotify: what notify.success, .error, .warning and .info hand to
\* addNotification.
notify(type) ==
    [type |-> type, duration |-> IF type = "error" THEN <<0>> ELSE NoDuration]

\* useUIStore.addNotification; the id stands for Date.now() and a random tail.
addNotification(list, notification, id) ==
    Append(list, [id |-> id, type |-> notification.type, duration |-> notification.duration])

\* useUIStore.removeNotification
removeNotification(list, id) ==
    SelectSeq(list, LAMBDA n : n.id # id)

\* The duration prop of the Notification component, with its default.
Duration(n) == IF n.duration = NoDuration THEN DefaultDuration ELSE n.duration[1]

Shown(id) == { i \in 1..Len(uiNotifications) : uiNotifications[i].id = id }

\* A caller of useNotify adds a notification.
Notify(type) ==
    /\ noteNextId <= MaxShown
    /\ uiNotifications' = addNotification(uiNotifications, notify(type), noteNextId)
    /\ noteNextId' = noteNextId + 1
    /\ UNCHANGED expired

\* The timer the Notification component armed when it mounted (only with a
\* duration above 0) fires: onRemove(id).
TimerExpires(id) ==
    /\ \E i \in Shown(id) :
          /\ Duration(uiNotifications[i]) > 0
          /\ expired' = expired \cup {uiNotifications[i]}
    /\ uiNotifications' = removeNotification(uiNotifications, id)
    /\ UNCHANGED noteNextId

\* The user clicks the close button of a notification: onRemove(id).
Close(id) ==
    /\ Shown(id) # {}
    /\ uiNotifications' = removeNotification(uiNotifications, id)
    /\ UNCHANGED <<noteNextId, expired>>

\* useUIStore.clearNotifications, which useNotifications hands out.
ClearNotifications ==
    /\ uiNotifications # <<>>
    /\ uiNotifications' = <<>>
    /\ UNCHANGED <<noteNextId, expired>>

\* An action of the notification display.
InNotes(A) ==
    A /\ UNCHANGED <<storeVars, queueVars, syncVars, cacheVars, events, uiVars, persistVars,
                     chatVars, observerVars, previewVars, listVars>>

NotesNext ==
    \/ \E type \in NotificationTypes : InNotes(Notify(type))
    \/ \E id \in 1..MaxShown : InNotes(TimerExpires(id))
    \/ \E id \in 1..MaxShown : InNotes(Close(id))
    \/ InNotes(ClearNotifications)

SpecNotes == TasksInit /\ [][NotesNext]_vars

\* The same, where the timer of a notification on display fires in the end.
FairNotes == SpecNotes /\ \A id \in 1..MaxShown : WF_vars(InNotes(TimerExpires(id)))

\* ------------------------------------------- ChatContainer: task preview
MaxAnswers == 3

\* No message, a message that carries no generated tasks, or null; the
\* assistant messages that carry tasks have the ids 1, 2, ...
NoMessage == 0

\* The effect 'detect new messages with tasks', run to its fixed point: a
\* latest message with tasks that is not rejected becomes the processed one.
DetectNewMessage(latest, rejected, lastProcessed) ==
    IF latest # NoMessage /\ latest \notin rejected /\ latest # lastProcessed
    THEN latest ELSE lastProcessed

\* showTaskPreview; pendingTasks is never set to anything but null.
showTaskPreview ==
    LET messageToCheck == IF freshMessage # NoMessage THEN freshMessage ELSE latestMessage
        hasGeneratedTasks == messageToCheck # NoMessage
        hasFreshResponse == freshMessage # NoMessage
        notRejected == messageToCheck \notin rejectedMessageIds
    IN  hasGeneratedTasks /\ (hasFreshResponse \/ notRejected)

\* The message whose tasks the preview shows.
Previewed == IF freshMessage # NoMessage THEN freshMessage ELSE latestMessage

\* if (lastProcessedMessageId) setRejectedMessageIds(prev => new Set(prev).add(...))
MarkHandled(rejected, lastProcessed) ==
    IF lastProcessed # NoMessage THEN rejected \cup {lastProcessed} ELSE rejected

\* handlePromptSubmit and App's handleSendPrompt up to its await, from the
\* form, which is disabled while the request runs: the handled state is
\* reset and the user message goes in front of the cached messages.
handlePromptSubmit ==
    /\ ~awaiting
    /\ answered < MaxAnswers
    /\ awaiting' = TRUE
    /\ rejectedMessageIds' = {}
    /\ lastProcessedMessageId' = DetectNewMessage(latestMessage, {}, NoMessage)
    /\ freshMessage' = NoMessage
    /\ handled' = {}
    /\ UNCHANGED <<latestMessage, answered>>

\* The request settles; on success App stores the fresh response.
ResponseArrives(ok) ==
    /\ awaiting
    /\ awaiting' = FALSE
    /\ answered' = IF ok THEN answered + 1 ELSE answered
    /\ freshMessage' = IF ok THEN answered + 1 ELSE freshMessage
    /\ UNCHANGED <<latestMessage, rejectedMessageIds, lastProcessedMessageId, handled>>

\* A fetch of the chat page settles and the messages prop changes: its last
\* message is the newest answer, or a message without tasks.
MessagesArrive(m) ==
    /\ m # latestMessage
    /\ latestMessage' = m
    /\ lastProcessedMessageId' = DetectNewMessage(m, rejectedMessageIds, lastProcessedMessageId)
    /\ UNCHANGED <<freshMessage, rejectedMessageIds, answered, awaiting, handled>>

\* What the three buttons of the preview have in common: the processed
\* message is marked, and App clears its fresh response.
PreviewHandled ==
    /\ showTaskPreview
    /\ rejectedMessageIds' = MarkHandled(rejectedMessageIds, lastProcessedMessageId)
    /\ lastProcessedMessageId' = DetectNewMessage(latestMessage, rejectedMessageIds', NoMessage)
    /\ freshMessage' = NoMessage
    /\ handled' = handled \cup {Previewed}
    /\ UNCHANGED <<latestMessage, answered, awaiting>>

\* handleAcceptTasks, handleAcceptSelected (both hand the tasks to App, whose
\* list this view leaves aside) and handleRejectTasks.
PreviewAcceptTasks == PreviewHandled
PreviewAcceptSelected == PreviewHandled
PreviewRejectTasks == PreviewHandled

\* An action of the chat view.
InPreview(A) ==
    A /\ UNCHANGED <<storeVars, queueVars, syncVars, cacheVars, events, uiVars, persistVars,
                     chatVars, observerVars, noteVars, listVars>>

PreviewNext ==
    \/ InPreview(handlePromptSubmit)
    \/ \E ok \in BOOLEAN : InPreview(ResponseArrives(ok))
    \/ \E m \in {NoMessage, answered} : InPreview(MessagesArrive(m))
    \/ InPreview(PreviewAcceptTasks)
    \/ InPreview(PreviewAcceptSelected)
    \/ InPreview(PreviewRejectTasks)

SpecPreview == TasksInit /\ [][PreviewNext]_vars

\* ------------------------------------------------------------- TaskList
MaxListed == 12
ITEMS_PER_PAGE == 10

\* The filters the user sets: none, or one status.
NoFilters == <<>>
FilterInputs == {NoFilters} \cup { <<status>> : status \in TaskStatus }
\* The sort fields that tell tasks apart by when they were made and by status.
SortFields == {"created_at", "status"}

statusOrder(status) ==
    CASE status = "PENDING" -> 1 [] status = "IN_PROGRESS" -> 2 [] status = "COMPLETED" -> 3

\* tasks.filter(...): the places in the tasks prop of the tasks that pass.
Filtered(list, f) ==
    SelectSeq([i \in 1..Len(list) |-> i], LAMBDA i : f = NoFilters \/ list[i] = f[1])

Reversed(s) == [i \in 1..Len(s) |-> s[Len(s) + 1 - i]]

\* filtered.sort(...): the sort is stable; App puts a new task in front, so
\* the prop is already in descending order of created_at.
Sorted(list, places, field, direction) ==
    IF field = "created_at"
    THEN IF direction = "desc" THEN places ELSE Reversed(places)
    ELSE LET rank(n) == SelectSeq(places, LAMBDA i : statusOrder(list[i]) = n)
         IN  IF direction = "asc" THEN rank(1) \o rank(2) \o rank(3)
             ELSE rank(3) \o rank(2) \o rank(1)

filteredAndSortedTasks == Sorted(listTasks, Filtered(listTasks, filters), sortField, sortDirection)

\* Math.ceil(length / ITEMS_PER_PAGE)
totalPages == (Len(filteredAndSortedTasks) + ITEMS_PER_PAGE - 1) \div ITEMS_PER_PAGE

\* filteredAndSortedTasks.slice((currentPage - 1) * ITEMS_PER_PAGE, currentPage * ITEMS_PER_PAGE)
paginatedTasks ==
    LET all == filteredAndSortedTasks
        from == (currentPage - 1) * ITEMS_PER_PAGE + 1
        to == IF currentPage * ITEMS_PER_PAGE < Len(all) THEN currentPage * ITEMS_PER_PAGE ELSE Len(all)
    IN  IF from > to THEN <<>> ELSE SubSeq(all, from, to)

\* The create form is submitted: App puts the new task, PENDING, in front.
onCreateTask ==
    /\ Len(listTasks) < MaxListed
    /\ listTasks' = <<"PENDING">> \o listTasks
    /\ UNCHANGED <<filters, sortField, sortDirection, currentPage>>

\* The delete button of a task on the page: App filters the task out.
onDeleteTask(place) ==
    /\ \E n \in 1..Len(paginatedTasks) : paginatedTasks[n] = place
    /\ listTasks' = [i \in 1..(Len(listTasks) - 1) |->
                        IF i < place THEN listTasks[i] ELSE listTasks[i + 1]]
    /\ UNCHANGED <<filters, sortField, sortDirection, currentPage>>

handleSort(field) ==
    /\ IF sortField = field
       THEN /\ sortDirection' = (IF sortDirection = "asc" THEN "desc" ELSE "asc")
            /\ UNCHANGED sortField
       ELSE /\ sortField' = field
            /\ sortDirection' = "asc"
    /\ currentPage' = 1
    /\ UNCHANGED <<listTasks, filters>>

handleFiltersChange(newFilters) ==
    /\ filters' = newFilters
    /\ currentPage' = 1
    /\ UNCHANGED <<listTasks, sortField, sortDirection>>

handleClearFilters ==
    /\ filters' = NoFilters
    /\ currentPage' = 1
    /\ UNCHANGED <<listTasks, sortField, sortDirection>>

\* The pagination bar, rendered when there is more than one page.
PreviousPage ==
    /\ totalPages > 1
    /\ currentPage # 1
    /\ currentPage' = (IF currentPage - 1 > 1 THEN currentPage - 1 ELSE 1)
    /\ UNCHANGED <<listTasks, filters, sortField, sortDirection>>

PageClick(page) ==
    /\ totalPages > 1
    /\ page \in 1..totalPages
    /\ currentPage' = page
    /\ UNCHANGED <<listTasks, filters, sortField, sortDirection>>

NextPage ==
    /\ totalPages > 1
    /\ currentPage # totalPages
    /\ currentPage' = (IF currentPage + 1 < totalPages THEN currentPage + 1 ELSE totalPages)
    /\ UNCHANGED <<listTasks, filters, sortField, sortDirection>>

\* An action of the task list view.
InList(A) ==
    A /\ UNCHANGED <<storeVars, queueVars, syncVars, cacheVars, events, uiVars, persistVars,
                     chatVars, observerVars, noteVars, previewVars>>

ListNext ==
    \/ InList(onCreateTask)
    \/ \E place \in 1..MaxListed : InList(onDeleteTask(place))
    \/ \E field \in SortFields : InList(handleSort(field))
    \/ \E newFilters \in FilterInputs : InList(handleFiltersChange(newFilters))
    \/ InList(handleClearFilters)
    \/ InList(PreviousPage)
    \/ \E page \in 1..((MaxListed + ITEMS_PER_PAGE - 1) \div ITEMS_PER_PAGE) : InList(PageClick(page))
    \/ InList(NextPage)

SpecList == TasksInit /\ [][ListNext]_vars

Next ==
    \/ Alone(HandleOnline)
    \/ Alone(HandleOffline)
    \/ \E operation \in OperationInputs : Alone(QueueOperation(operation))
    \/ Alone(TimerFire)
    \/ Alone(ManualSync)
    \/ \E dr \in BagToSet(drains), ok \in BOOLEAN : Alone(Settle(dr, ok))

Spec == Init /\ [][Next]_vars

\* ----------------------------------------------------------------- claims
InFlight(id) == { dr \in BagToSet(drains) : dr.cur.id = id }
SyncedIds == { s.id : s \in synced }
CachedStatus(id) == { cachedTasks[i].status : i \in { j \in 1..Len(cachedTasks) : cachedTasks[j].id = id } }

\* C1: a pending operation is dispatched again only if its previous dispatch
\* failed: no operation has two dispatches in flight at once, and no operation
\* whose dispatch succeeded has a dispatch in flight.
C1_NeverExecutedTwice ==
    \A dr \in BagToSet(drains) :
        /\ CopiesIn(dr, drains) = 1
        /\ InFlight(dr.cur.id) = {dr}
        /\ dr.cur.id \notin SyncedIds

\* C2: a drain dispatches its snapshot in the order the entries were queued
\* (ids grow with the order of enqueueing), one entry at a time: the entry in
\* flight was queued before every entry the drain has still to dispatch, and
\* those stand in that order.
C2_DrainIsFIFO ==
    \A dr \in BagToSet(drains) :
        /\ \A i \in 1..Len(dr.todo) : dr.cur.id < dr.todo[i].id
        /\ \A i, j \in 1..Len(dr.todo) : i < j => dr.todo[i].id < dr.todo[j].id

\* A drain over two entries has seen the first succeed and has the second in flight.
C2_Witness ==
    \E dr \in BagToSet(drains) :
        /\ dr.cur.id = 2
        /\ dr.todo = <<>>
        /\ 1 \in SyncedIds
        /\ 1 \notin Ids(pendingOperations)

\* C3: an entry whose dispatch failed three times is no longer in the queue.
C3_DroppedAtThirdFailure ==
    \A i \in 1..Len(pendingOperations) :
        failures[pendingOperations[i].id] < RetryCeiling

\* C5: on every OFFLINE to ONLINE transition with operations queued, the
\* handler's call of the drain routine starts a drain over them.
C5_ReconnectDrains ==
    [][ (~isOnline /\ isOnline' /\ pendingOperations # <<>>)
        => \E dr \in BagToSet(drains') :
              /\ dr.src = "reconnect"
              /\ dr.cur = pendingOperations[1]
              /\ CopiesIn(dr, drains') = CopiesIn(dr, drains) + 1 ]_vars

\* C6: once the queued UPDATE_TASK of task 7 to COMPLETED has been dispatched
\* with success and the queue is drained, the cached task 7 is COMPLETED.
C6_ScenarioFinalState ==
    ( /\ \E s \in synced : /\ s.type = "UPDATE_TASK"
                             /\ s.data = [id |-> 7, status |-> "COMPLETED"]
      /\ pendingOperations = <<>>
      /\ drains = EmptyBag
      /\ isOnline )
    => CachedStatus(7) = {"COMPLETED"}

\* C8: offline no resync runs: no interval timer is live while OFFLINE, at
\* most one is live at any time, and no invalidation is issued while OFFLINE.
C8_NoResyncWhileOffline ==
    /\ ~isOnline => liveIntervals = 0
    /\ liveIntervals <= 1
    /\ \A s \in BagToSet(syncing) : s.online


\* ------------------------------------------------- claims on the mutations
\* The entries of a cache a mutation of task id touches: the task's detail
\* entry (if any) and the task-list queries.
Entries(c, id) ==
    [detail |-> IF id \in DOMAIN c.detail THEN <<c.detail[id]>> ELSE <<>>,
     lists  |-> c.lists]

Settles == BagCardinality(muts') < BagCardinality(muts)
Requests(b) == { m \in BagToSet(b) : m.phase = "inflight" }
Quiet == muts = EmptyBag /\ refetching = [detail |-> {}, list |-> {}]

\* C4: when the only mutation triggered so far was an update, complete or
\* delete whose request failed, then once its rollback has run and every
\* refetch has settled, the task's detail entry and every task list that held
\* data are what they were right before the mutation began.
C4_RollbackRestoresSnapshot ==
    ( /\ mutations = 1
      /\ lastSettled.kind \in {"update", "complete", "delete"}
      /\ ~lastSettled.ok
      /\ Quiet )
    => /\ Entries(Cache, lastSettled.id).detail = Entries(lastSettled.before, lastSettled.id).detail
       /\ \A k \in DOMAIN lists :
            HasData(lastSettled.before.lists[k]) => lists[k] = lastSettled.before.lists[k]

\* C7: a mutation triggered through the hooks while isOnline is false appends
\* one pending operation and issues no request.
C7_OfflineMutationsQueued ==
    [][ (mutations' = mutations + 1 /\ ~isOnline)
        => /\ Len(pendingOperations') = Len(pendingOperations) + 1
           /\ Requests(muts') = Requests(muts) ]_vars

\* C10: in the step where a create, update or complete succeeds, the task's
\* detail entry and every item with the task's id in a cached list are the
\* response, which is the task as the backend now holds it.
C10_SuccessHoldsServerResponse ==
    [][ (Settles /\ lastSettled'.ok /\ lastSettled'.kind \in {"create", "update", "complete"})
        => LET response == lastSettled'.response IN
           /\ response = server'[response.id]
           /\ response.id \in DOMAIN detail'
           /\ detail'[response.id] = response
           /\ \A k \in DOMAIN lists' :
                HasData(lists'[k]) =>
                    \A i \in 1..Len(lists'[k].items) :
                        lists'[k].items[i].id = response.id => lists'[k].items[i] = response ]_vars

\* An update of task 7 applied its optimistic values over the cached detail
\* entry and the lists, and its response has replaced them.
C10_Witness ==
    /\ lastSettled.kind = "update"
    /\ lastSettled.ok
    /\ lastSettled.id = 7
    /\ 7 \in DOMAIN lastSettled.before.detail
    /\ 7 \in DOMAIN detail
    /\ detail[7] = lastSettled.response
    /\ lastSettled.response.updated_at = "server"
    /\ \E i \in 1..Len(lists["all"].items) : lists["all"].items[i] = lastSettled.response

\* ------------------------------------------------ claims on connectivity
FailedResync == warnings' = warnings + 1
FailedDispatch ==
    \/ \E id \in DOMAIN failures \cap DOMAIN failures' : failures'[id] = failures[id] + 1
    \/ \E id \in Ids(pendingOperations) \ Ids(pendingOperations') : \A op \in synced' : op.id # id
FailedMutation == Settles /\ ~lastSettled'.ok
SyncSettles == BagCardinality(syncing') < BagCardinality(syncing)

\* C9: isOnline changes only in the step of the online or the offline event;
\* a failed resync, a failed dispatch of a drain and a failed mutation leave
\* it alone, and a resync that settles without storing the sync time raises
\* a warning.
C9_OnlineOnlyBySignal ==
    [][ /\ isOnline' # isOnline => AppHandleOnline \/ AppHandleOffline
        /\ FailedResync \/ FailedDispatch \/ FailedMutation => isOnline' = isOnline
        /\ SyncSettles => lastSyncTimestamp' = now \/ FailedResync ]_vars

\* A session in which a resync, a drain's dispatch and a mutation have each
\* failed, and the connectivity state is still online.
C9_Witness ==
    /\ isOnline
    /\ warnings > 0
    /\ \E id \in DOMAIN failures : failures[id] > 0
    /\ lastSettled.kind # "none" /\ ~lastSettled.ok

\* ------------------------------------------- claims on concurrent mutations
Listed(ls, id) ==
    { k \in DOMAIN ls : HasData(ls[k]) /\ \E i \in 1..Len(ls[k].items) : ls[k].items[i].id = id }

\* C11: while a delete is in flight that took the task out of the cached
\* lists, and the only other mutation was an update of the same task that
\* began before the delete and has settled, the task is in none of the lists
\* the delete found loaded.
C11_NoResurrection ==
    \A m \in BagToSet(muts) :
        ( /\ m.kind = "delete" /\ m.phase = "inflight"
          /\ mutations = 2
          /\ lastSettled.kind = "update" /\ lastSettled.id = m.id
          /\ Listed(lastSettled.before.lists, m.id) # {} )
        => \A k \in DOMAIN lists :
                HasData(m.before.lists[k]) => k \notin Listed(lists, m.id)

\* ------------------------------------------------ claims on the App's tasks
StatusOf(ts, id) == { ts[i].status : i \in { j \in 1..Len(ts) : ts[j].id = id } }

Forward == { <<"PENDING", "IN_PROGRESS">>, <<"IN_PROGRESS", "COMPLETED">>,
             <<"PENDING", "COMPLETED">> }

\* C12: every task's status is one of PENDING, IN_PROGRESS, COMPLETED, and
\* in one step a task's status stays, moves forward along PENDING,
\* IN_PROGRESS, COMPLETED, or goes from COMPLETED to PENDING in a step of
\* handleToggleComplete.
C12_StatusMovesForward ==
    [][ \A id \in UiIds :
          \A old \in StatusOf(tasks, id), new \in StatusOf(tasks', id) :
            /\ new \in TaskStatus
            /\ \/ new = old
               \/ <<old, new>> \in Forward
               \/ /\ old = "COMPLETED" /\ new = "PENDING"
                  /\ handleToggleComplete(id) ]_vars

\* What handleAcceptTasks has to make of one suggestion.
Converted(task, made) ==
    /\ made.ai_generated = TRUE
    /\ made.status = "PENDING"
    /\ made.title = task.title
    /\ made.description = task.description
    /\ made.due_date = task.suggested_due_date
    /\ made.priority = task.suggested_priority
    /\ made.category = task.suggested_category

\* C18: a step of handleAcceptTasks puts exactly one task per accepted
\* suggestion in front of the list, each marked ai_generated, PENDING, under
\* an id no other task has and with the suggestion's title, description, due
\* date, priority and category, and the tasks that existed follow unchanged.
C18_AcceptConvertsSuggestions ==
    [][ \A accepted \in Selections :
            handleAcceptTasks(accepted) =>
                /\ Len(tasks') = Len(accepted) + Len(tasks)
                /\ \A i \in 1..Len(accepted) :
                       /\ Converted(accepted[i], tasks'[i])
                       /\ \A j \in 1..Len(tasks') : tasks'[j].id = tasks'[i].id => j = i
                /\ SubSeq(tasks', Len(accepted) + 1, Len(tasks')) = tasks ]_vars

\* Both suggestions of a response were accepted while the three first tasks
\* were on the list.
C18_Witness ==
    /\ freshResponse = NoResponse
    /\ Len(tasks) = Len(GeneratedTasks) + Len(mockTasks)
    /\ \A i \in 1..Len(GeneratedTasks) : Converted(GeneratedTasks[i], tasks[i])
    /\ SubSeq(tasks, Len(GeneratedTasks) + 1, Len(tasks)) = mockTasks

C19_EnqueueAppends ==
    [][ \A operation \in OperationInputs :
          /\ LET q == addPendingOperation(pendingOperations, operation, nextId)
             IN  /\ Len(q) = Len(pendingOperations) + 1
                 /\ SubSeq(q, 1, Len(pendingOperations)) = pendingOperations
                 /\ q[Len(q)].retryCount = 0
                 /\ q[Len(q)].type = operation.type
                 /\ q[Len(q)].data = operation.data
                 /\ q[Len(q)].id \notin Ids(pendingOperations)
          /\ QueueOperationCall(operation) =>
                /\ returned' = <<~isOnline>>
                /\ pendingOperations' =
                      IF isOnline THEN pendingOperations
                      ELSE addPendingOperation(pendingOperations, operation, nextId) ]_vars

\* queueOperation has returned true for the second time: the queue holds the
\* first operation, retried since, and the second behind it.
C19_Witness ==
    /\ returned = <<TRUE>>
    /\ Len(pendingOperations) = 2
    /\ pendingOperations[1].retryCount > 0
    /\ pendingOperations[2].retryCount = 0
    /\ pendingOperations[1].id < pendingOperations[2].id

\* ------------------------------------------------ claims on a drain step
Places(q, id) == { i \in 1..Len(q) : q[i].id = id }

\* C20: in the step where the dispatch of an entry settles, a success leaves
\* the queue without that entry and with every other entry as it was, in
\* order; a failure of an entry that is in the queue below the retry ceiling
\* leaves the queue as long as it was, that entry in its place with its
\* retry count one higher and every other entry as it was; and the drain
\* goes on with the next entry of its snapshot, when there is one.
C20_DrainStepEffect ==
    [][ \A dr \in BagToSet(drains), ok \in BOOLEAN :
          Settle(dr, ok) =>
            /\ ok =>
                 /\ Places(pendingOperations', dr.cur.id) = {}
                 /\ pendingOperations' =
                       SelectSeq(pendingOperations, LAMBDA op : op.id # dr.cur.id)
            /\ \A k \in Places(pendingOperations, dr.cur.id) :
                 (~ok /\ pendingOperations[k].retryCount < RetryCeiling) =>
                    /\ Len(pendingOperations') = Len(pendingOperations)
                    /\ pendingOperations'[k] =
                          [pendingOperations[k] EXCEPT !.retryCount = @ + 1]
                    /\ \A i \in 1..Len(pendingOperations) :
                          i # k => pendingOperations'[i] = pendingOperations[i]
            /\ dr.todo # <<>> =>
                 \E next \in BagToSet(drains') :
                    next.cur = Head(dr.todo) /\ next.todo = Tail(dr.todo) ]_vars

\* The first of two queued operations failed once and kept its place, and
\* the drain is dispatching the second.
C20_Witness ==
    /\ Len(pendingOperations) = 2
    /\ pendingOperations[1].retryCount = 1
    /\ pendingOperations[2].retryCount = 0
    /\ failures[pendingOperations[1].id] = 1
    /\ BagCardinality(drains) = 1
    /\ \E dr \in BagToSet(drains) :
          dr.cur.id = pendingOperations[2].id /\ dr.todo = <<>>

\* C13: in the step where a failed dispatch takes its operation out of the
\* queue, an error notification is added; and in the step where a drain ends
\* with a failed dispatch, no success notification is added.
C13_DropReportsError ==
    [][ \A dr \in BagToSet(drains) :
          Settle(dr, FALSE) =>
            /\ Len(pendingOperations') < Len(pendingOperations)
                  => notifications'.error = notifications.error + 1
            /\ dr.todo = <<>>
                  => notifications'.success = notifications.success ]_vars

\* ------------------------------------------------- claims on the chat
\* C14: in the step where the generate-tasks request of a prompt fails while
\* the cached chat page is still what addUserMessage made of it, the page
\* goes back to what it was before the prompt was sent.
C14_FailedPromptRolledBack ==
    [][ \A g \in BagToSet(generating) :
          ( /\ GenerateSettle(g, FALSE)
            /\ chatPage = addUserMessage(g.before, g.message) )
          => chatPage' = g.before ]_vars

\* ------------------------------------------------ claims on the queries
\* C15 as stated: a component asking for the task list while the list's data
\* is younger than its staleTime issues no request, whatever the resync did
\* since; once the data is staleTime old the list is refetched with one request.
C15_NoCallWithinWindow ==
    [][ InQueries(Get("list")) =>
          LET q == queries["list"] IN
          /\ (q.loaded /\ q.age < StaleSteps("list")) => networkCalls' = networkCalls
          /\ (q.loaded /\ q.age >= StaleSteps("list")) =>
                /\ queries'["list"].fetching
                /\ networkCalls' = networkCalls + (IF q.fetching THEN 0 ELSE 1) ]_vars

\* C15, amended: a component asking for the task list while the list's data
\* is younger than its staleTime and was not invalidated since it arrived
\* issues no request; once the data is staleTime old the list is refetched
\* with one request.
C15_NoCallWhileFresh ==
    [][ InQueries(Get("list")) =>
          LET q == queries["list"] IN
          /\ (q.loaded /\ ~q.invalidated /\ q.age < StaleSteps("list")) =>
                /\ networkCalls' = networkCalls
                /\ queries'["list"].fetching = q.fetching
          /\ (q.loaded /\ q.age >= StaleSteps("list")) =>
                /\ queries'["list"].fetching
                /\ networkCalls' = networkCalls + (IF q.fetching THEN 0 ELSE 1) ]_vars

\* The list's data turned staleTime old without an invalidation, and two
\* components have asked for it since: the second request of the session is
\* under way.
C15_Witness ==
    /\ queries["list"].loaded
    /\ ~queries["list"].invalidated
    /\ queries["list"].age = StaleSteps("list")
    /\ queries["list"].fetching
    /\ queries["list"].observers = 2
    /\ networkCalls = 2

C25_ToggleTwiceRestores ==
    \A id \in UiIds : ToggleComplete(ToggleComplete(tasks, id), id) = tasks

\* C22: no pending operation is dispatched while the connectivity state is
\* offline: a drain whose dispatch settles while offline takes no further
\* entry, and no call of the drain routine starts a drain while offline.
C22_NoDispatchWhileOffline ==
    [][ ~isOnline' =>
            \A dr \in BagToSet(drains') :
                CopiesIn(dr, drains') <= CopiesIn(dr, drains) ]_vars

Others(q, id) == SelectSeq(q, LAMBDA op : op.id # id)
DrainIds(dr) == {dr.cur.id} \cup { dr.todo[i].id : i \in 1..Len(dr.todo) }

\* C23: an operation enqueued while a drain is in progress is in no running
\* drain's snapshot, and when a drain's dispatch settles, every queue entry
\* other than the one dispatched stays in the queue as it was and in its
\* place, and the drain takes its next entry from its own snapshot only.
C23_DrainTouchesOnlyItsEntries ==
    [][ /\ \A operation \in OperationInputs :
              (QueueOperation(operation) /\ ~isOnline) =>
                  /\ pendingOperations'[Len(pendingOperations')].id = nextId
                  /\ \A dr \in BagToSet(drains') : nextId \notin DrainIds(dr)
        /\ \A dr \in BagToSet(drains), ok \in BOOLEAN :
              Settle(dr, ok) =>
                  /\ Others(pendingOperations', dr.cur.id) = Others(pendingOperations, dr.cur.id)
                  /\ \A d2 \in BagToSet(drains') :
                        \/ BagIn(d2, drains)
                        \/ DrainIds(d2) \subseteq DrainIds(dr) \ {dr.cur.id} ]_vars

\* A drain over one entry has its dispatch in flight while the queue holds,
\* behind that entry, an operation enqueued since and never dispatched.
C23_Witness ==
    /\ Len(pendingOperations) = 2
    /\ failures[pendingOperations[2].id] = 0
    /\ \E dr \in BagToSet(drains) :
          /\ dr.cur.id = pendingOperations[1].id
          /\ dr.todo = <<>>
    /\ \A dr \in BagToSet(drains) : pendingOperations[2].id \notin DrainIds(dr)

\* C24: the optimistic step of deleting any task lowers the total of every
\* cached task list by the number of items it removed from that list, and
\* leaves the total non-negative and not below the number of items that remain.
C24_DeleteKeepsTotals ==
    \A id \in TaskIds :
        \A k \in DOMAIN lists :
            LET old == lists[k]
                new == DeleteOptimistic(Cache, id).lists[k]
            IN  HasData(old) =>
                    /\ new.total = old.total - (Len(old.items) - Len(new.items))
                    /\ new.total >= 0
                    /\ new.total >= Len(new.items)

\* C26: the 'online' event, with sync enabled, issues exactly one immediate
\* resync (one invalidation of the task lists) and arms the periodic one.
C26_OneResyncOnReconnect ==
    [][ SyncHandleOnline =>
            /\ BagCardinality(syncing') = BagCardinality(syncing) + 1
            /\ intervalRef' ]_vars

\* C29: lastSyncTimestamp changes only when the invalidation of a syncData run
\* that was issued while the store was online completes without error, and
\* then it grows; every other step leaves it as it was.
C29_TimestampOnlyByOnlineResync ==
    [][ lastSyncTimestamp' # lastSyncTimestamp =>
            /\ lastSyncTimestamp' > lastSyncTimestamp
            /\ \E s \in BagToSet(syncing) : s.online /\ SyncSettle(s, TRUE) ]_vars

\* C28 as stated: the manual loading flag is true exactly while a request of
\* sendPrompt has not settled, and after every prompt isGenerating becomes
\* false at some time.
C28_FlagAlwaysReleased ==
    /\ [](isManuallyLoading <=> generating # EmptyBag)
    /\ (isManuallyLoading ~> ~isGenerating)

\* C28: the manual loading flag is true exactly while a request of sendPrompt
\* has not settled; a prompt whose request was sent is followed by a state
\* where isGenerating is false, and so is every prompt if the browser is
\* online from some time on.
C28_FlagReleasedOnSettle ==
    /\ [](isManuallyLoading <=> generating # EmptyBag)
    /\ ((\E g \in BagToSet(generating) : g.phase = "inflight") ~> ~isGenerating)
    /\ (<>[]isOnline => (isManuallyLoading ~> ~isGenerating))

\* The request of the first prompt has failed and the flag is down.
C28_Witness ==
    /\ prompts = 1
    /\ generating = EmptyBag
    /\ Len(serverChat) = 1
    /\ chatPage # NoData
    /\ ~isManuallyLoading
    /\ ~isGenerating

\* ------------------------------------------- claims on the notifications
\* C21 as stated: no timer ever removes an error notification, and an error
\* notification leaves the list only in a step that removes the notification
\* with its id and nothing else; every notification of another type that is
\* on display is off the list at some later time.
C21_ErrorsLeaveOnlyByRemove ==
    /\ [](\A n \in expired : n.type # "error")
    /\ [][ \A i \in 1..Len(uiNotifications) :
             LET n == uiNotifications[i] IN
             (n.type = "error" /\ \A j \in 1..Len(uiNotifications') : uiNotifications'[j].id # n.id)
                => Close(n.id) ]_vars
    /\ \A id \in 1..MaxShown :
          (\E i \in Shown(id) : uiNotifications[i].type # "error") ~> (Shown(id) = {})

\* C21: no timer ever removes an error notification, and an error
\* notification leaves the list only in a step that removes the notification
\* with its id at the user's request or in a step that clears the whole list;
\* every notification of another type that is on display is off the list at
\* some later time.
C21_ErrorsPersistOthersExpire ==
    /\ [](\A n \in expired : n.type # "error")
    /\ [][ \A i \in 1..Len(uiNotifications) :
             LET n == uiNotifications[i] IN
             (n.type = "error" /\ \A j \in 1..Len(uiNotifications') : uiNotifications'[j].id # n.id)
                => Close(n.id) \/ ClearNotifications ]_vars
    /\ \A id \in 1..MaxShown :
          (\E i \in Shown(id) : uiNotifications[i].type # "error") ~> (Shown(id) = {})

\* The first notification, an error, is still on display after the timer of
\* a notification made later has removed that one.
C21_Witness ==
    /\ \E i \in Shown(1) : uiNotifications[i].type = "error"
    /\ \E n \in expired : n.id = 2 /\ n.type = "success"

\* ------------------------------------------- claims on the task preview
\* C27: a message whose previewed tasks the user has accepted or rejected
\* since the last prompt was submitted is not the one the preview shows.
C27_HandledPreviewStaysHidden ==
    showTaskPreview => Previewed \notin handled

\* --------------------------------------------- claims on the task list
\* C30: the current page is one of the pages there are (page 1 when there is
\* none), and a list with tasks that pass the filter shows at least one.
C30_PageWithinRange ==
    /\ 1 <= currentPage
    /\ currentPage <= (IF totalPages > 1 THEN totalPages ELSE 1)
    /\ filteredAndSortedTasks # <<>> => paginatedTasks # <<>>
====
